---- MODULE Spec2Model ----
(***************************************************************************)
(* ShopChain (src/BlockChain.js): a hash-chained ledger of inventory       *)
(* events with a pending pool, a product catalog updated block by block,   *)
(* snapshots and a JSON persistence file.                                  *)
(*                                                                         *)
(* Abstractions, each more favourable to the code than the code itself:    *)
(*  - a SHA-256 digest is a record [zeros, src]: src is the hashed input   *)
(*    (no collisions), zeros the number of leading '0' hex characters, a   *)
(*    fixed function of the input (ZeroPrefix);                            *)
(*  - string concatenation of the hashed and signed fields is a tuple of   *)
(*    the fields (field boundaries are kept);                              *)
(*  - an RSA signature is a record [signer, msg] that verifies exactly     *)
(*    under the public key of its signer and for its message;              *)
(*  - a JavaScript value is a record [k, v]: numbers, undefined, NaN and   *)
(*    null; a key missing from an object reads as undefined;               *)
(*  - Date.now() is read once per operation from the clock `now`.          *)
(***************************************************************************)
EXTENDS Integers, Sequences, FiniteSets, TLC

\* ---------------------------------------------------------------- bounds
MaxTime == 1
MaxBlocks == 3
MaxTx == 2
MaxMenuTx == 3

\* ----------------------------------------------------- program constants
Difficulty == 2
SnapshotEvery == 100
DayMs == 86400000

VARIABLES
    now,                  \* the wall clock read by Date.now()
    chain,                \* this.chain
    pendingTransactions,  \* this.pendingTransactions
    shared,               \* indexes of the blocks whose transactions array IS the pool array
    products,             \* this.products (a Map: id -> Product)
    productCategories,    \* this.productCategories
    inventorySnapshots,   \* this.inventorySnapshots
    disk,                 \* the contents of blockchain_data.json
    lastCall,             \* the last public call: its name, argument and whether it threw
    tx,                   \* a Transaction object a caller holds
    verdict,              \* what the last verifySignature on tx answered, if tx is as it was then
    miner                 \* a Block inside mineBlock: the block, the difficulty, the position

vars == <<now, chain, pendingTransactions, shared, products,
          productCategories, inventorySnapshots, disk, lastCall, tx, verdict, miner>>

storeVars == <<chain, pendingTransactions, shared, products,
               productCategories, inventorySnapshots, disk>>

callerVars == <<tx, verdict>>

\* ------------------------------------------------------ JavaScript values
Num(n) == [k |-> "number", v |-> n]
Undefined == [k |-> "undefined", v |-> 0]
NaN == [k |-> "NaN", v |-> 0]
Null == [k |-> "null", v |-> 0]

IsNum(x) == x.k = "number"

\* ToNumber: null coerces to 0, undefined to NaN
ToNumber(x) == IF x.k = "null" THEN Num(0) ELSE IF x.k = "number" THEN x ELSE NaN

JsAdd(a, b) ==
    IF IsNum(ToNumber(a)) /\ IsNum(ToNumber(b))
    THEN Num(ToNumber(a).v + ToNumber(b).v) ELSE NaN

JsSub(a, b) ==
    IF IsNum(ToNumber(a)) /\ IsNum(ToNumber(b))
    THEN Num(ToNumber(a).v - ToNumber(b).v) ELSE NaN

\* x || 0 : 0, NaN, undefined and null are falsy
OrZero(x) == IF IsNum(x) /\ x.v # 0 THEN x ELSE Num(0)

\* JSON.stringify of a scalar: NaN is written as null; an undefined member is
\* left out and reads as undefined again after JSON.parse
JsonValue(x) == IF x.k = "NaN" THEN Null ELSE x

Last(s) == s[Len(s)]

\* JSON.stringify of an object: the members named in fs are scalars
JsonFields(r, fs) == [f \in DOMAIN r |-> IF f \in fs THEN JsonValue(r[f]) ELSE r[f]]

\* JSON.stringify(data) for the payload shapes the ledger handles
JsonData(data) ==
    IF "product" \in DOMAIN data
    THEN IF data.product = Undefined THEN data
         ELSE [data EXCEPT !.product =
                  JsonFields(data.product, {"initialQuantity", "quantity", "price"})]
    ELSE IF "products" \in DOMAIN data
    THEN [data EXCEPT !.products =
             [i \in 1..Len(data.products) |->
                 JsonFields(data.products[i], {"quantity", "price"})]]
    ELSE JsonFields(data, {"oldPrice", "newPrice", "quantity"})

JsonTransaction(transaction) == [transaction EXCEPT !.data = JsonData(transaction.data)]

JsonTransactions(txs) == [i \in 1..Len(txs) |-> JsonTransaction(txs[i])]

\* ------------------------------------------------------------- the hasher
\* createHash('sha256').update(...).digest('hex')
ZeroTable(m) == CASE m = 0 -> 3 [] m = 1 -> 2 [] m \in {2, 3} -> 1 [] OTHER -> 0

Sha256(src, weight) == [zeros |-> ZeroTable(weight % 8), src |-> src]

\* the string "0", previousHash of a genesis block
ZeroString == [zeros |-> 1, src |-> <<>>]

\* the number this.nonce contributes to the digest; "undefined" is a fixed string
NonceWeight(nonce) == IF IsNum(nonce) THEN 7 * nonce.v ELSE 21

\* ------------------------------------------------------------------ Block
calculateHash(b) ==
    Sha256(<<b.previousHash, b.timestamp, JsonTransactions(b.transactions), b.nonce>>,
           3 * b.timestamp + 5 * Len(b.transactions) + NonceWeight(b.nonce)
             + b.previousHash.zeros)

\* the constructor computes the hash BEFORE it sets nonce = 0 (lines 9-10)
Block(timestamp, transactions, previousHash) ==
    LET unset == [timestamp |-> timestamp, transactions |-> transactions,
                  previousHash |-> previousHash, nonce |-> Undefined]
    IN  [timestamp |-> timestamp, transactions |-> transactions,
         previousHash |-> previousHash, hash |-> calculateHash(unset), nonce |-> Num(0)]

\* hash.substring(0, d) === "0".repeat(d)
HasZeroPrefix(h, d) == h.zeros >= d

\* a mineBlock that accepts one zero less than asked
RECURSIVE mineBlockShort(_, _)
mineBlockShort(b, difficulty) ==
    IF HasZeroPrefix(b.hash, difficulty - 1) THEN b
    ELSE LET n == [b EXCEPT !.nonce = Num(b.nonce.v + 1)]
         IN  mineBlockShort([n EXCEPT !.hash = calculateHash(n)], difficulty)

RECURSIVE mineBlock(_, _)
mineBlock(b, difficulty) ==
    IF HasZeroPrefix(b.hash, difficulty) THEN b
    ELSE LET n == [b EXCEPT !.nonce = Num(b.nonce.v + 1)]
         IN  mineBlock([n EXCEPT !.hash = calculateHash(n)], difficulty)

\* ------------------------------------------------------------ Transaction
generateTransactionId(data, timestamp) ==
    Sha256(<<JsonData(data), timestamp>>, 4 + timestamp)

Transaction(type, data, timestamp) ==
    [type |-> type, data |-> data, timestamp |-> timestamp, signature |-> Null,
     transactionId |-> generateTransactionId(data, timestamp)]

\* ---------------------------------------------------------------- Product
Product(id, name, category, unit, initialQuantity, price) ==
    [id |-> id, name |-> name, category |-> category, unit |-> unit,
     quantity |-> initialQuantity, price |-> price, history |-> <<>>]

\* ---------------------------------------------------------- state reducer
\* A catalog state st is [products, productCategories, threw]; a handler that
\* raises a TypeError leaves the state as it was and sets threw.

handleProductAdd(st, data) ==
    IF data.product = Undefined
    THEN [st EXCEPT !.threw = TRUE]                       \* product.id of undefined
    ELSE LET product == data.product
             created == Product(product.id, product.name, product.category,
                                product.unit, product.initialQuantity, product.price)
         IN  [st EXCEPT
                !.products = [id \in DOMAIN st.products \cup {product.id} |->
                                 IF id = product.id THEN created ELSE st.products[id]],
                !.productCategories = st.productCategories \cup {product.category}]

handleProductUpdate(st, data) ==
    IF data.productId \in DOMAIN st.products
    THEN LET product == st.products[data.productId]
         IN  IF data.updateType = "PRICE"
             THEN [st EXCEPT !.products[data.productId] =
                     [product EXCEPT
                        !.history = Append(product.history,
                            [type |-> "PRICE_CHANGE", oldValue |-> product.price,
                             newValue |-> data.newPrice, timestamp |-> data.timestamp,
                             reason |-> data.reason]),
                        !.price = data.newPrice]]
             ELSE st
    ELSE st

\* a handleInventoryUpdate whose OUT movement adds
handleInventoryUpdateOutAdds(st, data) ==
    IF data.productId \in DOMAIN st.products
    THEN LET product == st.products[data.productId]
             oldQuantity == product.quantity
             newQuantity ==
                 CASE data.movementType = "IN" -> JsAdd(product.quantity, data.quantity)
                   [] data.movementType = "OUT" -> JsAdd(product.quantity, data.quantity)
                   [] data.movementType = "ADJUST" -> data.quantity
                   [] OTHER -> product.quantity
         IN  [st EXCEPT !.products[data.productId] =
                 [product EXCEPT
                    !.quantity = newQuantity,
                    !.history = Append(product.history,
                        [type |-> "QUANTITY_CHANGE", oldValue |-> oldQuantity,
                         newValue |-> newQuantity, movement |-> data.movementType,
                         reason |-> data.reason, timestamp |-> data.timestamp])]]
    ELSE st

\* a handleInventoryUpdate whose ADJUST movement adds to the quantity
handleInventoryUpdateAdjustAdds(st, data) ==
    IF data.productId \in DOMAIN st.products
    THEN LET product == st.products[data.productId]
             oldQuantity == product.quantity
             newQuantity ==
                 CASE data.movementType = "IN" -> JsAdd(product.quantity, data.quantity)
                   [] data.movementType = "OUT" -> JsSub(product.quantity, data.quantity)
                   [] data.movementType = "ADJUST" -> JsAdd(product.quantity, data.quantity)
                   [] OTHER -> product.quantity
         IN  [st EXCEPT !.products[data.productId] =
                 [product EXCEPT
                    !.quantity = newQuantity,
                    !.history = Append(product.history,
                        [type |-> "QUANTITY_CHANGE", oldValue |-> oldQuantity,
                         newValue |-> newQuantity, movement |-> data.movementType,
                         reason |-> data.reason, timestamp |-> data.timestamp])]]
    ELSE st

handleInventoryUpdate(st, data) ==
    IF data.productId \in DOMAIN st.products
    THEN LET product == st.products[data.productId]
             oldQuantity == product.quantity
             newQuantity ==
                 CASE data.movementType = "IN" -> JsAdd(product.quantity, data.quantity)
                   [] data.movementType = "OUT" -> JsSub(product.quantity, data.quantity)
                   [] data.movementType = "ADJUST" -> data.quantity
                   [] OTHER -> product.quantity
         IN  [st EXCEPT !.products[data.productId] =
                 [product EXCEPT
                    !.quantity = newQuantity,
                    !.history = Append(product.history,
                        [type |-> "QUANTITY_CHANGE", oldValue |-> oldQuantity,
                         newValue |-> newQuantity, movement |-> data.movementType,
                         reason |-> data.reason, timestamp |-> data.timestamp])]]
    ELSE st

RECURSIVE SaleItems(_, _, _)
SaleItems(st, data, i) ==
    IF i > Len(data.products) THEN st
    ELSE LET item == data.products[i]
         IN  IF item.id \in DOMAIN st.products
             THEN LET product == st.products[item.id]
                  IN  SaleItems(
                        [st EXCEPT !.products[item.id] =
                            [product EXCEPT
                               !.quantity = JsSub(product.quantity, item.quantity),
                               !.history = Append(product.history,
                                   [type |-> "SALE", quantity |-> item.quantity,
                                    price |-> item.price, timestamp |-> data.timestamp,
                                    orderId |-> data.orderId])]],
                        data, i + 1)
             ELSE SaleItems(st, data, i + 1)

\* a handleSale that takes a line item for a product not in the catalog as an error
handleSaleKnownOnly(st, data) ==
    IF "products" \notin DOMAIN data
    THEN [st EXCEPT !.threw = TRUE]
    ELSE IF \E i \in 1..Len(data.products) : data.products[i].id \notin DOMAIN st.products
         THEN [st EXCEPT !.threw = TRUE]
         ELSE SaleItems(st, data, 1)

handleSale(st, data) ==
    IF "products" \notin DOMAIN data
    THEN [st EXCEPT !.threw = TRUE]                       \* undefined is not iterable
    ELSE SaleItems(st, data, 1)

ApplyTransaction(st, transaction) ==
    CASE transaction.type = "PRODUCT_ADD" -> handleProductAdd(st, transaction.data)
      [] transaction.type = "PRODUCT_UPDATE" -> handleProductUpdate(st, transaction.data)
      [] transaction.type = "INVENTORY_UPDATE" -> handleInventoryUpdate(st, transaction.data)
      [] transaction.type = "SALE" -> handleSale(st, transaction.data)
      [] OTHER -> st

\* the for loop of updateState: it stops at the first handler that throws
RECURSIVE ApplyTransactions(_, _, _)
ApplyTransactions(st, transactions, i) ==
    IF st.threw \/ i > Len(transactions) THEN st
    ELSE ApplyTransactions(ApplyTransaction(st, transactions[i]), transactions, i + 1)

CategoriesOf(prods) == {prods[id].category : id \in DOMAIN prods}

shouldCreateSnapshot(chainNow, snapshots, clock) ==
    \/ Len(chainNow) % SnapshotEvery = 0
    \/ /\ Len(snapshots) > 0
       /\ clock - Last(snapshots).timestamp > DayMs

createInventorySnapshot(chainNow, prods, clock) ==
    [timestamp |-> clock, blockHeight |-> Len(chainNow),
     products |-> [id \in DOMAIN prods |->
                     [id |-> id, quantity |-> prods[id].quantity, price |-> prods[id].price]]]

\* updateState(block) on the store [products, productCategories, inventorySnapshots]:
\* the result carries threw when a handler raised; then nothing after the loop ran
updateState(prods, cats, snapshots, chainNow, block, clock) ==
    LET st == ApplyTransactions([products |-> prods, productCategories |-> cats,
                                 threw |-> FALSE], block.transactions, 1)
    IN  IF st.threw
        THEN [products |-> st.products, productCategories |-> st.productCategories,
              inventorySnapshots |-> snapshots, threw |-> TRUE]
        ELSE [products |-> st.products,
              productCategories |-> st.productCategories \cup CategoriesOf(st.products),
              inventorySnapshots |->
                  IF shouldCreateSnapshot(chainNow, snapshots, clock)
                  THEN Append(snapshots, createInventorySnapshot(chainNow, st.products, clock))
                  ELSE snapshots,
              threw |-> FALSE]

\* ------------------------------------------------------------- read side
\* a getLatestBlock that answers the genesis block
getLatestBlockFirst(c) == c[1]

getLatestBlock(c) == c[Len(c)]

getProductStock(productId) ==
    IF productId \in DOMAIN products THEN OrZero(products[productId].quantity) ELSE Num(0)

getProductHistory(productId) ==
    IF productId \in DOMAIN products THEN products[productId].history ELSE <<>>

\* ---------------------------------------------------- signing (RSA-SHA256)
KeyPairs == {"K1", "K2"}

\* type + JSON.stringify(data) + timestamp + transactionId
SignedMessage(transaction) ==
    <<transaction.type, JsonData(transaction.data), transaction.timestamp,
      transaction.transactionId>>

signTransaction(transaction, privateKey) ==
    [transaction EXCEPT
        !.signature = [signer |-> privateKey, msg |-> SignedMessage(transaction)]]

verifySignature(transaction, publicKey) ==
    IF transaction.signature = Null THEN FALSE
    ELSE /\ transaction.signature.signer = publicKey
         /\ transaction.signature.msg = SignedMessage(transaction)

\* ----------------------------------------------------------------- inputs
ProductIds == {"P1"}

\* the payload the menu builds (part_000 line 49), the payload of the spec's
\* scenario (a `quantity` member, no initialQuantity), and no payload at all
ProductInputs ==
    { [id |-> "P1", name |-> "tea", category |-> "c1", unit |-> "kg",
       initialQuantity |-> Num(3), quantity |-> Undefined, price |-> Num(5)],
      [id |-> "P1", name |-> "tea", category |-> "c2", unit |-> "kg",
       initialQuantity |-> Undefined, quantity |-> Num(3), price |-> Num(5)],
      Undefined }

PriceInputs == {Num(7)}
QuantityInputs == {Num(1)}
MovementTypes == {"OUT", "ADJUST"}

\* payloads of the transaction a caller builds, signs and verifies: a movement
\* whose quantity the menu parsed (parseInt gives NaN for text that is no number)
MovementData(quantity, clock) ==
    [productId |-> "P1", quantity |-> quantity, movementType |-> "OUT",
     reason |-> "r", timestamp |-> clock]

CallerTypes == {"INVENTORY_UPDATE", "PRODUCT_UPDATE"}
CallerQuantities == {Num(1), NaN, Null}
CallerData == {MovementData(q, 0) : q \in CallerQuantities}
CallerIds == {generateTransactionId(d, 0) : d \in CallerData}

\* a string that is no PEM private key
NotAKey == "text"

NoVerdict == [publicKey |-> "none", result |-> FALSE, done |-> FALSE]

\* transactions a caller builds itself and hands to addTransaction
\* a line item of a sale
SaleItem(id) == [id |-> id, quantity |-> Num(1), price |-> Num(5)]

\* an order of two line items, the first for a product no addProduct ever names
SaleData(clock) ==
    [products |-> <<SaleItem("P2"), SaleItem("P1")>>,
     orderId |-> "o1", timestamp |-> clock]

CallerTransactions(clock) ==
    { Transaction("SALE", SaleData(clock), clock),
      signTransaction(Transaction("SALE", SaleData(clock), clock), "K1") }

\* ------------------------------------------------------------ persistence
\* JSON.stringify of the members saveToFile writes
JsonChain(c) == [i \in 1..Len(c) |-> [c[i] EXCEPT !.transactions = JsonTransactions(@)]]

JsonHistory(h) ==
    [i \in 1..Len(h) |-> JsonFields(h[i], {"oldValue", "newValue", "quantity", "price"})]

JsonProducts(prods) ==
    [id \in DOMAIN prods |->
        [JsonFields(prods[id], {"quantity", "price"}) EXCEPT !.history = JsonHistory(@)]]

JsonSnapshots(snapshots) ==
    [i \in 1..Len(snapshots) |->
        [snapshots[i] EXCEPT !.products =
            [id \in DOMAIN @ |-> JsonFields(@[id], {"quantity", "price"})]]]

\* what blockchain_data.json can hold: no file, text that is not JSON, the
\* text saveToFile wrote, or that text with a `products` member that is an
\* object instead of a list of pairs
NoFile ==
    [kind |-> "missing", chain |-> <<>>, products |-> [id \in {} |-> Undefined],
     productCategories |-> {}, inventorySnapshots |-> <<>>]

NotJson == [NoFile EXCEPT !.kind = "garbage"]

StoreFile(c, prods, cats, snapshots) ==
    [kind |-> "store", chain |-> JsonChain(c), products |-> JsonProducts(prods),
     productCategories |-> cats, inventorySnapshots |-> JsonSnapshots(snapshots)]

\* the try block of loadFromFile run against `file` on the store st =
\* [chain, products, productCategories, inventorySnapshots]: each assignment
\* made before the statement that throws stays
LoadInto(st, file) ==
    CASE file.kind = "store" ->
           [chain |-> file.chain, products |-> file.products,
            productCategories |-> file.productCategories,
            inventorySnapshots |-> file.inventorySnapshots]
      [] file.kind = "badproducts" -> [st EXCEPT !.chain = file.chain]
      [] OTHER -> st

\* ------------------------------------------------------------------- Init
createGenesisBlock(clock) == Block(clock, <<>>, ZeroString)

\* the members of a new ShopChain() that loadFromFile assigns
ShopChain(clock) ==
    [chain |-> <<createGenesisBlock(clock)>>, products |-> [id \in {} |-> Undefined],
     productCategories |-> {}, inventorySnapshots |-> <<>>]

NoArg == Undefined

\* no mineBlock call is running
NoMining == [block |-> createGenesisBlock(0), difficulty |-> 0, pc |-> "idle"]

Init ==
    /\ now = 0
    /\ chain = ShopChain(0).chain
    /\ pendingTransactions = <<>>
    /\ shared = {}
    /\ products = ShopChain(0).products
    /\ productCategories = ShopChain(0).productCategories
    /\ inventorySnapshots = ShopChain(0).inventorySnapshots
    /\ disk = NoFile
    /\ lastCall = [op |-> "constructor", arg |-> NoArg, threw |-> FALSE]
    /\ tx = Transaction("INVENTORY_UPDATE", MovementData(Num(1), 0), 0)
    /\ verdict = NoVerdict
    /\ miner = NoMining

\* ---------------------------------------------------------------- actions
\* the number of transactions in the arrays of blocks i.. of c that are not the pool
SumLen(c, i) ==
    Cardinality(UNION {{<<k, j>> : j \in 1..Len(c[k].transactions)} :
                          k \in (i..Len(c)) \ shared})

\* the transactions the store holds: the pool and every array of the chain
TotalTx == Len(pendingTransactions) + SumLen(chain, 1)

\* this.pendingTransactions.push(transaction): the array is also the transactions
\* array of every block in `shared`
Push(transaction) ==
    /\ pendingTransactions' = Append(pendingTransactions, transaction)
    /\ chain' = [i \in 1..Len(chain) |->
                    IF i \in shared
                    THEN [chain[i] EXCEPT !.transactions = Append(@, transaction)]
                    ELSE chain[i]]

Tick ==
    /\ now < MaxTime
    /\ now' = now + 1
    /\ UNCHANGED <<chain, pendingTransactions, shared, products,
                   productCategories, inventorySnapshots, disk, lastCall, tx, verdict, miner>>

addProduct(productData) ==
    /\ Push(Transaction("PRODUCT_ADD", [product |-> productData, timestamp |-> now], now))
    /\ lastCall' = [op |-> "addProduct", arg |-> NoArg, threw |-> FALSE]
    /\ UNCHANGED <<now, shared, products, productCategories, inventorySnapshots, disk, tx, verdict, miner>>

updateProductPrice(productId, newPrice) ==
    /\ Push(Transaction("PRODUCT_UPDATE",
            [productId |-> productId, updateType |-> "PRICE",
             oldPrice |-> IF productId \in DOMAIN products
                          THEN products[productId].price ELSE Undefined,
             newPrice |-> newPrice, reason |-> "r", timestamp |-> now], now))
    /\ lastCall' = [op |-> "updateProductPrice", arg |-> NoArg, threw |-> FALSE]
    /\ UNCHANGED <<now, shared, products, productCategories, inventorySnapshots, disk, tx, verdict, miner>>

recordInventoryMovement(productId, quantity, type) ==
    /\ Push(Transaction("INVENTORY_UPDATE",
            [productId |-> productId, quantity |-> quantity, movementType |-> type,
             reason |-> "r", timestamp |-> now], now))
    /\ lastCall' = [op |-> "recordInventoryMovement", arg |-> NoArg, threw |-> FALSE]
    /\ UNCHANGED <<now, shared, products, productCategories, inventorySnapshots, disk, tx, verdict, miner>>

\* an addTransaction without the signature check
addTransactionUnchecked(transaction) ==
    /\ Push(transaction)
    /\ lastCall' = [op |-> "addTransaction", arg |-> transaction, threw |-> FALSE]
    /\ UNCHANGED <<now, shared, products, productCategories, inventorySnapshots, disk, tx, verdict, miner>>

addTransaction(transaction) ==
    /\ IF transaction.signature = Null
       THEN /\ lastCall' = [op |-> "addTransaction", arg |-> transaction, threw |-> TRUE]
            /\ UNCHANGED <<chain, pendingTransactions>>
       ELSE /\ Push(transaction)
            /\ lastCall' = [op |-> "addTransaction", arg |-> transaction, threw |-> FALSE]
    /\ UNCHANGED <<now, shared, products, productCategories, inventorySnapshots, disk, tx, verdict, miner>>

minePendingTransactions ==
    /\ LET block == mineBlock(Block(now, pendingTransactions, getLatestBlock(chain).hash),
                              Difficulty)
           chainNow == Append(chain, block)
           r == updateState(products, productCategories, inventorySnapshots,
                            chainNow, block, now)
       IN  /\ chain' = chainNow
           /\ products' = r.products
           /\ productCategories' = r.productCategories
           /\ inventorySnapshots' = r.inventorySnapshots
           /\ IF r.threw
              THEN /\ pendingTransactions' = pendingTransactions
                   /\ shared' = shared \cup {Len(chainNow)}
              ELSE /\ pendingTransactions' = <<>>
                   /\ shared' = {}
           /\ lastCall' = [op |-> "minePendingTransactions", arg |-> NoArg, threw |-> r.threw]
    /\ UNCHANGED <<now, disk, tx, verdict, miner>>

\* writeFile of the encoded store
saveToFile ==
    /\ disk' = StoreFile(chain, products, productCategories, inventorySnapshots)
    /\ lastCall' = [op |-> "saveToFile", arg |-> NoArg, threw |-> FALSE]
    /\ UNCHANGED <<now, chain, pendingTransactions, shared, products,
                   productCategories, inventorySnapshots, tx, verdict, miner>>

\* main() starting: new ShopChain(), then loadFromFile() on it; every error of
\* the try block is caught and logged, none reaches the caller
Restart ==
    /\ LET st == LoadInto(ShopChain(now), disk)
       IN  /\ chain' = st.chain
           /\ products' = st.products
           /\ productCategories' = st.productCategories
           /\ inventorySnapshots' = st.inventorySnapshots
    /\ pendingTransactions' = <<>>
    /\ shared' = {}
    /\ lastCall' = [op |-> "loadFromFile", arg |-> NoArg, threw |-> FALSE]
    /\ UNCHANGED <<now, disk, tx, verdict, miner>>

\* the environment deletes the file, overwrites it with text that is not JSON,
\* or damages the `products` member of a saved store
StorageFault ==
    /\ disk' \in {NoFile, NotJson} \cup
                 (IF disk.kind = "store" THEN {[disk EXCEPT !.kind = "badproducts"]} ELSE {})
    /\ disk' # disk
    /\ UNCHANGED <<now, chain, pendingTransactions, shared, products,
                   productCategories, inventorySnapshots, lastCall, tx, verdict, miner>>

\* the explored runs hold at most MaxTx transactions and MaxBlocks blocks
Next ==
    \/ Tick
    \/ TotalTx < MaxTx /\ \E productData \in ProductInputs : addProduct(productData)
    \/ TotalTx < MaxTx /\ \E productId \in ProductIds, newPrice \in PriceInputs :
          updateProductPrice(productId, newPrice)
    \/ TotalTx < MaxTx /\
          \E productId \in ProductIds, quantity \in QuantityInputs, type \in MovementTypes :
             recordInventoryMovement(productId, quantity, type)
    \/ TotalTx < MaxTx /\ \E transaction \in CallerTransactions(now) : addTransaction(transaction)
    \/ Len(chain) < MaxBlocks /\ minePendingTransactions

Spec == Init /\ [][Next]_vars

\* --------------------------------------------- a caller signing a transaction
NewTransaction(type, data, timestamp) ==
    /\ tx' = Transaction(type, data, timestamp)
    /\ verdict' = NoVerdict
    /\ UNCHANGED <<now, storeVars, lastCall, miner>>

\* tx.signTransaction(privateKey); the call is remembered with tx as it signed it
SignTransaction(privateKey) ==
    /\ IF privateKey \notin KeyPairs
       THEN /\ lastCall' = [op |-> "signTransaction", arg |-> NoArg, threw |-> TRUE]
            /\ UNCHANGED tx
       ELSE /\ tx' = signTransaction(tx, privateKey)
            /\ lastCall' = [op |-> "signTransaction", arg |-> tx', threw |-> FALSE]
    /\ verdict' = NoVerdict
    /\ UNCHANGED <<now, storeVars, miner>>

\* the fields of a Transaction are plain writable members
SetType(type) ==
    /\ type # tx.type
    /\ tx' = [tx EXCEPT !.type = type]
    /\ verdict' = NoVerdict
    /\ UNCHANGED <<now, storeVars, lastCall, miner>>

SetData(data) ==
    /\ data # tx.data
    /\ tx' = [tx EXCEPT !.data = data]
    /\ verdict' = NoVerdict
    /\ UNCHANGED <<now, storeVars, lastCall, miner>>

SetTimestamp(timestamp) ==
    /\ timestamp # tx.timestamp
    /\ tx' = [tx EXCEPT !.timestamp = timestamp]
    /\ verdict' = NoVerdict
    /\ UNCHANGED <<now, storeVars, lastCall, miner>>

SetTransactionId(id) ==
    /\ id # tx.transactionId
    /\ tx' = [tx EXCEPT !.transactionId = id]
    /\ verdict' = NoVerdict
    /\ UNCHANGED <<now, storeVars, lastCall, miner>>

VerifySignature(publicKey) ==
    /\ verdict' = [publicKey |-> publicKey, result |-> verifySignature(tx, publicKey),
                   done |-> TRUE]
    /\ UNCHANGED <<now, storeVars, lastCall, tx, miner>>

NextSign ==
    \/ \E type \in CallerTypes, data \in CallerData, timestamp \in 0..MaxTime :
          NewTransaction(type, data, timestamp)
    \/ \E privateKey \in KeyPairs \cup {NotAKey} : SignTransaction(privateKey)
    \/ \E type \in CallerTypes : SetType(type)
    \/ \E data \in CallerData : SetData(data)
    \/ \E timestamp \in 0..MaxTime : SetTimestamp(timestamp)
    \/ \E id \in CallerIds : SetTransactionId(id)
    \/ \E publicKey \in KeyPairs : VerifySignature(publicKey)

SpecSign == Init /\ [][NextSign]_vars

\* a session of the menu: the payloads and arguments its choices 1, 2, 3 and 8
\* build, at most MaxMenuTx transactions held
MenuProducts == {p \in ProductInputs \ {Undefined} : IsNum(p.initialQuantity)}

NextMenu ==
    \/ Tick
    \/ TotalTx < MaxMenuTx /\ \E productData \in MenuProducts : addProduct(productData)
    \/ TotalTx < MaxMenuTx /\ \E productId \in ProductIds, newPrice \in PriceInputs :
          updateProductPrice(productId, newPrice)
    \/ TotalTx < MaxMenuTx /\
          \E productId \in ProductIds, quantity \in QuantityInputs, type \in MovementTypes :
             recordInventoryMovement(productId, quantity, type)
    \/ Len(chain) < MaxBlocks /\ minePendingTransactions

SpecMenu == Init /\ [][NextMenu]_vars

\* a ledger close to its hundredth block: the store after menu choice 8 (mine)
\* was taken on a new store, the pool empty each time, up to OldLength blocks
OldLength == SnapshotEvery - 2

RECURSIVE MinedEmpty(_, _)
MinedEmpty(c, length) ==
    IF Len(c) >= length THEN c
    ELSE MinedEmpty(Append(c, mineBlock(Block(0, <<>>, getLatestBlock(c).hash), Difficulty)),
                    length)

InitSnapshot ==
    /\ now = 0
    /\ chain = MinedEmpty(ShopChain(0).chain, OldLength)
    /\ pendingTransactions = <<>>
    /\ shared = {}
    /\ products = ShopChain(0).products
    /\ productCategories = ShopChain(0).productCategories
    /\ inventorySnapshots = ShopChain(0).inventorySnapshots
    /\ disk = NoFile
    /\ lastCall = [op |-> "minePendingTransactions", arg |-> NoArg, threw |-> FALSE]
    /\ tx = Transaction("INVENTORY_UPDATE", MovementData(Num(1), 0), 0)
    /\ verdict = NoVerdict
    /\ miner = NoMining

\* a day goes by without a call
Overnight ==
    /\ now < DayMs
    /\ now' = now + DayMs
    /\ UNCHANGED <<chain, pendingTransactions, shared, products,
                   productCategories, inventorySnapshots, disk, lastCall, tx, verdict, miner>>

NextSnapshot ==
    \/ Tick
    \/ Overnight
    \/ TotalTx < MaxTx /\ \E productData \in ProductInputs : addProduct(productData)
    \/ Len(chain) < OldLength + MaxBlocks /\ minePendingTransactions

SpecSnapshot == InitSnapshot /\ [][NextSnapshot]_vars

\* ------------------------------------------- mineBlock, one iteration a step
\* the most leading zeros a digest has here, so every difficulty up to it is feasible
Difficulties == 0..ZeroTable(0)

\* hashes a block is built on: of a genesis block, of a block mined on one
PreviousHashes ==
    {createGenesisBlock(t).hash : t \in 0..MaxTime} \cup
    {mineBlock(Block(t, <<>>, createGenesisBlock(0).hash), Difficulty).hash : t \in 0..MaxTime}

\* new Block(timestamp, transactions, previousHash), then block.mineBlock(difficulty)
StartMining(timestamp, transactions, previousHash, difficulty) ==
    /\ miner.pc # "search"
    /\ miner' = [block |-> Block(timestamp, transactions, previousHash),
                 difficulty |-> difficulty, pc |-> "search"]
    /\ UNCHANGED <<now, storeVars, lastCall, tx, verdict>>

\* the while test of mineBlock and, when it fails, one run of the loop body
MineStep ==
    /\ miner.pc = "search"
    /\ IF HasZeroPrefix(miner.block.hash, miner.difficulty)
       THEN miner' = [miner EXCEPT !.pc = "done"]
       ELSE LET n == [miner.block EXCEPT !.nonce = Num(miner.block.nonce.v + 1)]
            IN  miner' = [miner EXCEPT !.block = [n EXCEPT !.hash = calculateHash(n)]]
    /\ UNCHANGED <<now, storeVars, lastCall, tx, verdict>>

NextMine ==
    \/ \E timestamp \in 0..MaxTime, transactions \in {<<>>, <<tx>>},
          previousHash \in PreviousHashes, difficulty \in Difficulties :
          StartMining(timestamp, transactions, previousHash, difficulty)
    \/ MineStep

SpecMine == Init /\ [][NextMine]_vars

\* a mineBlock call that has begun goes on running
SpecMineFair == SpecMine /\ WF_vars(MineStep)

\* the ledger together with its file and restarts of the process
NextPersist ==
    \/ Next
    \/ saveToFile
    \/ Restart
    \/ StorageFault

SpecPersist == Init /\ [][NextPersist]_vars

\* ================================================================ claims

IsPrefix(s, t) == Len(s) <= Len(t) /\ \A i \in 1..Len(s) : s[i] = t[i]

\* C1: every block at index i > 0 has previousHash equal to the stored hash of
\* the block before it.
C1_ChainLinked ==
    \A i \in 2..Len(chain) : chain[i].previousHash = chain[i - 1].hash

\* two mined blocks, the second one appended by a mine that threw
C1_Witness ==
    /\ Len(chain) = 3
    /\ chain[3].previousHash = chain[2].hash
    /\ chain[2].hash # chain[1].hash
    /\ lastCall = [op |-> "minePendingTransactions", arg |-> NoArg, threw |-> TRUE]

\* C2: for every block of the chain, the genesis block included, the stored hash
\* equals the digest calculateHash recomputes from the block's current fields.
C2_StoredHashIsRecomputedHash ==
    \A i \in 1..Len(chain) : chain[i].hash = calculateHash(chain[i])

\* C3: every non-genesis block has a stored hash whose first `difficulty` hex
\* characters are all '0'; only the genesis block is exempt.
C3_ProofOfWork ==
    \A i \in 2..Len(chain) : chain[i].hash.zeros >= Difficulty

\* a block whose nonce search ran, behind a genesis block without the prefix
C3_Witness ==
    /\ Len(chain) >= 2
    /\ chain[1].hash.zeros < Difficulty
    /\ chain[2].nonce.v > 0
    /\ chain[2].hash.zeros >= Difficulty

\* C4: a step that appends a block leaves the pool empty and the appended block
\* holds exactly the pool as it was; no other step removes a transaction from
\* the pool.
C4_PoolClearedExactlyWhenSealed ==
    [][ /\ Len(chain') > Len(chain) =>
              /\ pendingTransactions' = <<>>
              /\ Last(chain').transactions = pendingTransactions
        /\ Len(chain') = Len(chain) => IsPrefix(pendingTransactions, pendingTransactions')
      ]_vars

\* replaying the chain from genesis onto an empty catalog, block by block
RECURSIVE ReplayFrom(_, _, _)
ReplayFrom(st, c, i) ==
    IF st.threw \/ i > Len(c) THEN st
    ELSE ReplayFrom(ApplyTransactions(st, c[i].transactions, 1), c, i + 1)

Replay(c) ==
    ReplayFrom([products |-> [id \in {} |-> Undefined], productCategories |-> {},
                threw |-> FALSE], c, 1)

\* C5: replaying all transactions of all blocks from genesis onto an empty
\* catalog produces a catalog identical to the one the ledger holds.
C5_ReplayEqualsIncremental ==
    /\ ~Replay(chain).threw
    /\ Replay(chain).products = products

\* the shape the chain has right after addProduct, mine, recordInventoryMovement
\* OUT, mine: the last two blocks hold one transaction each and the pool is empty
AddThenOut ==
    /\ Len(chain) >= 3
    /\ pendingTransactions = <<>>
    /\ Len(chain[Len(chain) - 1].transactions) = 1
    /\ Len(chain[Len(chain)].transactions) = 1
    /\ chain[Len(chain) - 1].transactions[1].type = "PRODUCT_ADD"
    /\ chain[Len(chain) - 1].transactions[1].data.product # Undefined
    /\ chain[Len(chain)].transactions[1].type = "INVENTORY_UPDATE"
    /\ chain[Len(chain)].transactions[1].data.movementType = "OUT"
    /\ chain[Len(chain)].transactions[1].data.productId =
           chain[Len(chain) - 1].transactions[1].data.product.id
    /\ IsNum(chain[Len(chain)].transactions[1].data.quantity)

AddedPayload == chain[Len(chain) - 1].transactions[1].data.product
MovedOut == chain[Len(chain)].transactions[1].data.quantity

\* C6 (as stated): the payload's `quantity` member q and an OUT movement of n
\* leave getProductStock at q - n.
C6_StockFromQuantityField ==
    (AddThenOut /\ IsNum(AddedPayload.quantity)) =>
        getProductStock(AddedPayload.id) = Num(AddedPayload.quantity.v - MovedOut.v)

\* C6 (amended): the payload's `initialQuantity` member q and an OUT movement of
\* n leave getProductStock at q - n.
C6_StockFromInitialQuantity ==
    (AddThenOut /\ IsNum(AddedPayload.initialQuantity)) =>
        getProductStock(AddedPayload.id) = Num(AddedPayload.initialQuantity.v - MovedOut.v)

C6_Witness ==
    /\ AddThenOut
    /\ AddedPayload.initialQuantity = Num(3)
    /\ MovedOut = Num(1)
    /\ getProductStock("P1") = Num(2)
    /\ lastCall = [op |-> "minePendingTransactions", arg |-> NoArg, threw |-> FALSE]

\* C9: addTransaction with an unsigned transaction throws and leaves pool, chain
\* and catalog unchanged; with a signed one it appends exactly that transaction
\* to the end of the pool.
C9_AddTransactionContract ==
    [][ \A transaction \in CallerTransactions(now) :
          addTransaction(transaction) =>
              IF transaction.signature = Null
              THEN /\ lastCall'.threw
                   /\ UNCHANGED <<pendingTransactions, chain, products>>
              ELSE /\ ~lastCall'.threw
                   /\ pendingTransactions' = Append(pendingTransactions, transaction)
      ]_vars

\* an unsigned transaction was just refused while a signed one sits in the pool
C9_Witness ==
    /\ lastCall.op = "addTransaction"
    /\ lastCall.threw
    /\ lastCall.arg.signature = Null
    /\ pendingTransactions # <<>>
    /\ Last(pendingTransactions).signature # Null

\* C7: saveToFile followed by loadFromFile into a fresh ShopChain yields a
\* chain, a catalog and a category set identical to those before the save.
C7_SaveLoadRoundTrip ==
    [][ (Restart /\ disk = StoreFile(chain, products, productCategories, inventorySnapshots))
          => /\ chain' = chain
             /\ products' = products
             /\ productCategories' = productCategories
      ]_vars

\* C8: loadFromFile into a fresh ShopChain against storage that is missing,
\* unreadable or no well-formed store encoding raises nothing and leaves a fresh
\* store: one genesis block, empty catalog, category set and snapshot list.
C8_LoadFailureGivesFreshStore ==
    [][ (Restart /\ disk.kind # "store")
          => /\ ~lastCall'.threw
             /\ Len(chain') = 1
             /\ chain'[1].previousHash = ZeroString
             /\ chain'[1].transactions = <<>>
             /\ products' = ShopChain(now).products
             /\ productCategories' = ShopChain(now).productCategories
             /\ inventorySnapshots' = ShopChain(now).inventorySnapshots
      ]_vars

\* tx as the last successful signTransaction left it
AsSigned == lastCall.arg

SignedBefore == lastCall.op = "signTransaction" /\ ~lastCall.threw

FieldChangedSinceSigning ==
    \/ tx.type # AsSigned.type
    \/ tx.data # AsSigned.data
    \/ tx.timestamp # AsSigned.timestamp
    \/ tx.transactionId # AsSigned.transactionId

\* C10: after signTransaction, verifySignature with the matching public key
\* answers true; with another public key, or after type, data, timestamp or
\* transactionId was changed, it answers false; on a transaction that was never
\* signed it answers false.
C10_SignThenVerify ==
    verdict.done =>
        /\ tx.signature = Null => ~verdict.result
        /\ (SignedBefore /\ tx = AsSigned) =>
               (verdict.result <=> verdict.publicKey = tx.signature.signer)
        /\ (SignedBefore /\ tx.signature = AsSigned.signature /\ FieldChangedSinceSigning) =>
               ~verdict.result

\* C11: a minePendingTransactions call on a pool built by the public submit
\* operations never raises an error: it returns with the pool cleared.
C11_MineNeverFails ==
    lastCall.op = "minePendingTransactions" =>
        /\ ~lastCall.threw
        /\ pendingTransactions = <<>>

\* C12: no step of a submit or a mine removes a product from the catalog or
\* shortens or rewrites a product's history: the history before the step is a
\* prefix of the history after it.
C12_HistoryOnlyGrows ==
    [][\A id \in DOMAIN products :
           /\ id \in DOMAIN products'
           /\ IsPrefix(products[id].history, products'[id].history)]_vars

\* the catalog the ledger holds, as the handlers take it
Catalog == [products |-> products, productCategories |-> productCategories, threw |-> FALSE]

AdjustValues == {Num(0), Num(1), NaN}

AdjustData(productId, v) ==
    [productId |-> productId, quantity |-> v, movementType |-> "ADJUST",
     reason |-> "r", timestamp |-> now]

\* C13: on every catalog the ledger reaches, an INVENTORY_UPDATE with movement
\* ADJUST and quantity v on a product of the catalog sets its quantity to v and
\* appends one QUANTITY_CHANGE record with oldValue the prior quantity and
\* newValue v; a product whose last record is such an ADJUST holds its newValue.
C13_AdjustSetsQuantity ==
    /\ \A id \in DOMAIN products, v \in AdjustValues :
          LET r == handleInventoryUpdate(Catalog, AdjustData(id, v))
              h == r.products[id].history
          IN  /\ ~r.threw
              /\ r.products[id].quantity = v
              /\ Len(h) = Len(products[id].history) + 1
              /\ IsPrefix(products[id].history, h)
              /\ Last(h).type = "QUANTITY_CHANGE"
              /\ Last(h).movement = "ADJUST"
              /\ Last(h).oldValue = products[id].quantity
              /\ Last(h).newValue = v
    /\ \A id \in DOMAIN products :
          LET h == products[id].history
          IN  (Len(h) > 0 /\ Last(h).type = "QUANTITY_CHANGE" /\ Last(h).movement = "ADJUST")
                 => products[id].quantity = Last(h).newValue

\* a mine applied recordInventoryMovement('P1', 1, 'ADJUST') to a stock of 3
C13_Witness ==
    /\ "P1" \in DOMAIN products
    /\ Len(products["P1"].history) = 1
    /\ products["P1"].history[1].type = "QUANTITY_CHANGE"
    /\ products["P1"].history[1].movement = "ADJUST"
    /\ products["P1"].history[1].oldValue = Num(3)
    /\ products["P1"].history[1].newValue = Num(1)
    /\ products["P1"].quantity = Num(1)

\* C14: a transaction submitted once a mine has taken the pool for its block
\* goes to the pending pool and to no block: the step that submits it appends
\* it to the pool and leaves the transaction list of every block as it was.
C14_SubmitAfterMineIsolated ==
    [][Len(pendingTransactions') = Len(pendingTransactions) + 1 =>
          /\ IsPrefix(pendingTransactions, pendingTransactions')
          /\ Len(chain') = Len(chain)
          /\ \A i \in 1..Len(chain) :
                Len(chain'[i].transactions) = Len(chain[i].transactions)]_vars

\* C15: the category index is exactly the set of categories of the products in
\* the catalog: it holds no category that no product has and misses none.
C15_CategoriesExact ==
    productCategories = CategoriesOf(products)

\* the data updateProductPrice records for a product that is not in the catalog
UnknownPriceData(id) ==
    [productId |-> id, updateType |-> "PRICE", oldPrice |-> Undefined,
     newPrice |-> Num(7), reason |-> "r", timestamp |-> now]

UnknownMovementData(id, type) ==
    [productId |-> id, quantity |-> Num(1), movementType |-> type,
     reason |-> "r", timestamp |-> now]

OrderOf(items) == [products |-> items, orderId |-> "o1", timestamp |-> now]

\* C16: on every catalog the ledger reaches, a PRODUCT_UPDATE, an
\* INVENTORY_UPDATE or a SALE line item naming a product that is not in the
\* catalog raises no error and returns the catalog as it was; a SALE applies its
\* line items for known products as if the unknown ones were not there; no
\* product is in the catalog that no PRODUCT_ADD named.
C16_UnknownProductIsNoOp ==
    /\ DOMAIN products \subseteq ProductIds
    /\ \A id \in {"P1", "P2"} \ DOMAIN products :
          /\ handleProductUpdate(Catalog, UnknownPriceData(id)) = Catalog
          /\ \A type \in {"IN", "OUT", "ADJUST"} :
                handleInventoryUpdate(Catalog, UnknownMovementData(id, type)) = Catalog
          /\ handleSale(Catalog, OrderOf(<<SaleItem(id)>>)) = Catalog
          /\ \A known \in DOMAIN products :
                LET r == handleSale(Catalog, OrderOf(<<SaleItem(id), SaleItem(known)>>))
                IN  /\ ~r.threw
                    /\ r = handleSale(Catalog, OrderOf(<<SaleItem(known)>>))
                    /\ r.products[known].quantity =
                          JsSub(products[known].quantity, SaleItem(known).quantity)
                    /\ Len(r.products[known].history) = Len(products[known].history) + 1
                    /\ Last(r.products[known].history).type = "SALE"

\* a mine applied a signed SALE of P2, not in the catalog, and of P1 with stock 3
C16_Witness ==
    /\ lastCall = [op |-> "minePendingTransactions", arg |-> NoArg, threw |-> FALSE]
    /\ Last(chain).transactions # <<>>
    /\ Last(Last(chain).transactions).type = "SALE"
    /\ Last(Last(chain).transactions).data.products[1].id = "P2"
    /\ DOMAIN products = {"P1"}
    /\ products["P1"].quantity = Num(2)
    /\ Len(products["P1"].history) = 1
    /\ products["P1"].history[1].type = "SALE"

\* whether a snapshot is due once a mine has appended its block
SnapshotDue ==
    \/ Len(chain') % 100 = 0
    \/ /\ inventorySnapshots # <<>>
       /\ now - Last(inventorySnapshots).timestamp > 24 * 60 * 60 * 1000

\* C17: a mine appends a snapshot exactly when, with its block appended, the chain
\* length is a multiple of 100 or more than 24 hours have passed since the last
\* snapshot; the snapshot appended is one, its blockHeight is the chain length,
\* its products are the quantity and price of every product of the catalog after
\* the block; no step changes or removes an earlier snapshot.
C17_SnapshotExactlyWhenDue ==
    [][ /\ IsPrefix(inventorySnapshots, inventorySnapshots')
        /\ Len(chain') = Len(chain) => inventorySnapshots' = inventorySnapshots
        /\ Len(chain') > Len(chain) =>
              IF SnapshotDue
              THEN /\ Len(inventorySnapshots') = Len(inventorySnapshots) + 1
                   /\ Last(inventorySnapshots').blockHeight = Len(chain')
                   /\ DOMAIN Last(inventorySnapshots').products = DOMAIN products'
                   /\ \A id \in DOMAIN products' :
                         /\ Last(inventorySnapshots').products[id].quantity =
                               products'[id].quantity
                         /\ Last(inventorySnapshots').products[id].price = products'[id].price
              ELSE inventorySnapshots' = inventorySnapshots
      ]_vars

\* C18: when mineBlock stops, it stops at a nonce that gives the block a hash
\* with `difficulty` leading zeros: the digest of the block's fields with the
\* nonce it holds has the prefix.
C18_StopsAtFeasibleNonce ==
    miner.pc = "done" =>
        HasZeroPrefix(calculateHash(miner.block), miner.difficulty)

\* every mineBlock call with a feasible difficulty returns
MineTerminates == (miner.pc = "search") ~> (miner.pc = "done")

\* C19: the chain is append-only: no step removes a block or changes the
\* transaction list, the nonce, the hash or any other field of a block that is
\* on the chain; the chain before the step is a prefix of the chain after it.
C19_ChainAppendOnly ==
    [][IsPrefix(chain, chain')]_vars

\* C20: no transaction is in more than one block of the chain. Transactions
\* are objects: two blocks hold the same ones when their transactions arrays
\* are one array, which is what `shared` records (blocks whose array is the pool).
C20_SealedAtMostOnce ==
    \A i \in shared, j \in shared : i # j => chain[i].transactions = <<>>

====
